---- MODULE Spec2Model ----
(***************************************************************************)
(* A model of rox, a tree-walking interpreter for a small scripting        *)
(* language: scanner (src/src/scanner.rs), parser (src/src/parser.rs),     *)
(* scope chain (src/src/environment.rs) and evaluator                      *)
(* (src/src/interpreter.rs).                                               *)
(*                                                                         *)
(* Conventions.  A Rust struct is a record with the struct's field names.  *)
(* Option<T> is a sequence of length 0 (None) or 1 (Some).  A character is *)
(* a one-character string and a source text a sequence of characters.      *)
(* Indices into source and tokens are 0-based as in the Rust code; the     *)
(* element at Rust index i is seq[i + 1].  An f64 is the rational n/d it   *)
(* denotes, in lowest terms with d > 0; d = 0 marks a non-finite result.   *)
(* A panic (unwrap on None/Err, slice or index out of range, panic!) ends  *)
(* the run: the *_pc variable of the component becomes "panicked".         *)
(***************************************************************************)
EXTENDS Integers, Sequences, FiniteSets, TLC

VARIABLES
    env,          \* EnvSpec: an Environment value under test
    last_call,    \* EnvSpec: the last Environment method called and its result
    scanner,      \* the Scanner struct: source, tokens, start, current, line
    scan_pc,      \* position of scan_tokens: "scanning", "returned", "panicked"
    parser,       \* the Parser struct: tokens, current
    statements,   \* the local `statements` of Parser::parse
    parse_pc,     \* position of parse: "parsing", "returned", "panicked"
    program,      \* which program (and parameter) the interpreter is given
    interpreter,  \* the Interpreter struct: environment
    frames,       \* the interpreter's call stack (innermost call first)
    exec_pc,      \* position of interpret: "running", "returned", "panicked"
    HAD_ERROR,    \* static HAD_ERROR of main.rs
    stdout,       \* the lines written by println!
    stderr        \* the messages of the panics

envVars == <<env, last_call>>
scanVars == <<scanner, scan_pc>>
parseVars == <<parser, statements, parse_pc>>
interpVars == <<program, interpreter, frames, exec_pc>>
ioVars == <<HAD_ERROR, stdout, stderr>>
vars == <<env, last_call, scanner, scan_pc, parser, statements, parse_pc,
          program, interpreter, frames, exec_pc, HAD_ERROR, stdout, stderr>>

(***************************************************************************)
(* Bounds of the model.                                                    *)
(***************************************************************************)
MaxDepth == 3     \* longest scope chain built in EnvSpec
MaxSrcLen == 3    \* longest source text scanned in ScanSpec
MaxTokens == 5    \* most tokens before the end marker in ParseSpec
MaxParam == 3     \* largest program parameter in InterpSpec

Max(a, b) == IF a >= b THEN a ELSE b

\* Only({ e(x) : x \in {v} }) is e(v) with v computed once: the way to name
\* an intermediate result that is used several times.
Only(S) == CHOOSE x \in S : TRUE
Abs(a) == IF a < 0 THEN 0 - a ELSE a

RECURSIVE Gcd(_, _)
Gcd(a, b) == IF b = 0 THEN a ELSE Gcd(b, a % b)

(***************************************************************************)
(* f64 values as rationals.                                                *)
(***************************************************************************)
Rat(n, d) ==
    IF d = 0 THEN [n |-> IF n > 0 THEN 1 ELSE IF n < 0 THEN 0 - 1 ELSE 0, d |-> 0]
    ELSE LET g == Gcd(Abs(n), Abs(d))
             sgn == IF d < 0 THEN 0 - 1 ELSE 1
         IN [n |-> sgn * (n \div g), d |-> sgn * (d \div g)]

RatAdd(a, b) == Rat(a.n * b.d + b.n * a.d, a.d * b.d)
RatSub(a, b) == Rat(a.n * b.d - b.n * a.d, a.d * b.d)
RatMul(a, b) == Rat(a.n * b.n, a.d * b.d)
RatDiv(a, b) == Rat(a.n * b.d, a.d * b.n)
RatLess(a, b) == a.n * b.d < b.n * a.d

(***************************************************************************)
(* tokens.rs: Literal, and value.rs: Value.                                *)
(***************************************************************************)
Literal_String_(s) == [lit |-> "String_", s |-> s, num |-> Rat(0, 1), b |-> FALSE]
Literal_Number(q) == [lit |-> "Number", s |-> "", num |-> q, b |-> FALSE]
Literal_Bool(b) == [lit |-> "Bool", s |-> "", num |-> Rat(0, 1), b |-> b]
Literal_Nil == [lit |-> "Nil", s |-> "", num |-> Rat(0, 1), b |-> FALSE]

Value_String_(s) == [val |-> "String_", s |-> s, num |-> Rat(0, 1), b |-> FALSE]
Value_Number(q) == [val |-> "Number", s |-> "", num |-> q, b |-> FALSE]
Value_Bool(b) == [val |-> "Bool", s |-> "", num |-> Rat(0, 1), b |-> b]
Value_Nil == [val |-> "Nil", s |-> "", num |-> Rat(0, 1), b |-> FALSE]

\* impl From<Literal> for Value
Value_from(l) ==
    CASE l.lit = "String_" -> Value_String_(l.s)
      [] l.lit = "Bool" -> Value_Bool(l.b)
      [] l.lit = "Number" -> Value_Number(l.num)
      [] l.lit = "Nil" -> Value_Nil

Token_new(type_, lexeme, literal, line) ==
    [type_ |-> type_, lexeme |-> lexeme, literal |-> literal, line |-> line]

(***************************************************************************)
(* environment.rs.  An Environment is [enclosing, values]; values maps the *)
(* names bound in the scope to their values.  A method that takes &mut     *)
(* self returns the environment it leaves behind next to its result.       *)
(***************************************************************************)
NoValues == [name \in {} |-> Value_Nil]

Environment_default == [enclosing |-> <<>>, values |-> NoValues]

new_from(enclosing) == [enclosing |-> <<enclosing>>, values |-> NoValues]

insert(values, name, value) ==
    [k \in DOMAIN values \cup {name} |-> IF k = name THEN value ELSE values[k]]

define(self, name, value) ==
    [self EXCEPT !.values = insert(self.values, name, value)]

UndefinedVariable(name) == "Undefined variable '" \o name \o "'."

RECURSIVE get(_, _)
get(self, name) ==
    IF name \in DOMAIN self.values
    THEN [ok |-> TRUE, value |-> self.values[name], err |-> ""]
    ELSE IF self.enclosing # <<>>
    THEN get(self.enclosing[1], name)
    ELSE [ok |-> FALSE, value |-> Value_Nil, err |-> UndefinedVariable(name)]

\* The enclosing branch calls assign on self.enclosing.clone(): the clone is
\* a temporary, so only the Result of the call survives and self is left
\* as it was.
RECURSIVE assign(_, _, _)
RECURSIVE assign_creating(_, _, _)

\* assign as it would be if the end of the chain bound the name instead of
\* failing.
assign_creating(self, name, value) ==
    IF name \in DOMAIN self.values
    THEN [ok |-> TRUE, self |-> [self EXCEPT !.values = insert(self.values, name, value)],
          err |-> ""]
    ELSE IF self.enclosing # <<>>
    THEN LET r == assign_creating(self.enclosing[1], name, value)
         IN [ok |-> r.ok, self |-> self, err |-> r.err]
    ELSE [ok |-> TRUE, self |-> [self EXCEPT !.values = insert(self.values, name, value)],
          err |-> ""]

assign(self, name, value) ==
    IF name \in DOMAIN self.values
    THEN [ok |-> TRUE, self |-> [self EXCEPT !.values = insert(self.values, name, value)],
          err |-> ""]
    ELSE IF self.enclosing # <<>>
    THEN LET r == assign(self.enclosing[1], name, value)
         IN [ok |-> r.ok, self |-> self, err |-> r.err]
    ELSE [ok |-> FALSE, self |-> self, err |-> UndefinedVariable(name)]

RECURSIVE Depth(_)
Depth(e) == IF e.enclosing = <<>> THEN 1 ELSE 1 + Depth(e.enclosing[1])

RECURSIVE BoundNames(_)
BoundNames(e) ==
    DOMAIN e.values \cup (IF e.enclosing = <<>> THEN {} ELSE BoundNames(e.enclosing[1]))

(***************************************************************************)
(* Idle values of the components a specification does not run.             *)
(***************************************************************************)
IdleEnv == env = Environment_default /\ last_call = [op |-> "none", name |-> "", value |-> Value_Nil, ok |-> TRUE]
IdleScanner == scanner = [source |-> <<>>, tokens |-> <<>>, start |-> 0, current |-> 0, line |-> 1] /\ scan_pc = "idle"
IdleParser == parser = [tokens |-> <<>>, current |-> 0] /\ statements = <<>> /\ parse_pc = "idle"
IdleInterpreter == program = [id |-> 0, param |-> 0] /\ interpreter = [environment |-> Environment_default] /\ frames = <<>> /\ exec_pc = "idle"
IdleIo == HAD_ERROR = FALSE /\ stdout = <<>> /\ stderr = <<>>

(***************************************************************************)
(* EnvSpec: the Environment methods called in any order on one chain.      *)
(***************************************************************************)
EnvNames == {"x", "y"}
EnvValues == {Value_Number(Rat(1, 1)), Value_Number(Rat(2, 1))}

EnvInit ==
    /\ env = Environment_default
    /\ last_call = [op |-> "default", name |-> "", value |-> Value_Nil, ok |-> TRUE]
    /\ IdleScanner /\ IdleParser /\ IdleInterpreter /\ IdleIo

EnvNewFrom ==
    /\ Depth(env) < MaxDepth
    /\ env' = new_from(env)
    /\ last_call' = [op |-> "new_from", name |-> "", value |-> Value_Nil, ok |-> TRUE]
    /\ UNCHANGED <<scanVars, parseVars, interpVars, ioVars>>

EnvDefine ==
    \E name \in EnvNames, value \in EnvValues :
        /\ env' = define(env, name, value)
        /\ last_call' = [op |-> "define", name |-> name, value |-> value, ok |-> TRUE]
        /\ UNCHANGED <<scanVars, parseVars, interpVars, ioVars>>

EnvGet ==
    \E name \in EnvNames :
        LET r == get(env, name) IN
        /\ env' = env
        /\ last_call' = [op |-> "get", name |-> name, value |-> r.value, ok |-> r.ok]
        /\ UNCHANGED <<scanVars, parseVars, interpVars, ioVars>>

EnvAssign ==
    \E name \in EnvNames, value \in EnvValues :
        LET r == assign(env, name, value) IN
        /\ env' = r.self
        /\ last_call' = [op |-> "assign", name |-> name, value |-> value, ok |-> r.ok]
        /\ UNCHANGED <<scanVars, parseVars, interpVars, ioVars>>

EnvNext == EnvNewFrom \/ EnvDefine \/ EnvGet \/ EnvAssign

EnvSpec == EnvInit /\ [][EnvNext]_vars

\* C2: after assign(name, v) returns success, get(name) on the same chain
\* returns v, whichever scope of the chain binds name.
C2_AssignThenGet ==
    (last_call.op = "assign" /\ last_call.ok) =>
        (get(env, last_call.name).ok /\ get(env, last_call.name).value = last_call.value)

(***************************************************************************)
(* ast.rs: Expr and Stmt.                                                  *)
(***************************************************************************)
Expr_Assign(name, value) == [e |-> "Assign", name |-> name, value |-> value]
Expr_Binary(left, operator, right) == [e |-> "Binary", left |-> left, operator |-> operator, right |-> right]
Expr_Grouping(expression) == [e |-> "Grouping", expression |-> expression]
Expr_Literal(literal) == [e |-> "Literal", literal |-> literal]
Expr_Logical(left, operator, right) == [e |-> "Logical", left |-> left, operator |-> operator, right |-> right]
Expr_Unary(operator, right) == [e |-> "Unary", operator |-> operator, right |-> right]
Expr_Variable(name) == [e |-> "Variable", name |-> name]

Stmt_Block(stmts) == [s |-> "Block", stmts |-> stmts]
Stmt_Expression(expr) == [s |-> "Expression", expr |-> expr]
Stmt_If(condition, then_branch, else_branch) == [s |-> "If", condition |-> condition, then_branch |-> then_branch, else_branch |-> else_branch]
Stmt_Print(expr) == [s |-> "Print", expr |-> expr]
Stmt_Var(name, initializer) == [s |-> "Var", name |-> name, initializer |-> initializer]
Stmt_While(condition, body) == [s |-> "While", condition |-> condition, body |-> body]

(***************************************************************************)
(* value.rs: impl Display for Value.  f64::to_string writes an integral    *)
(* value without a fraction and any other value with its decimal digits.   *)
(***************************************************************************)
F64Digits == 17

RECURSIVE FracDigits(_, _, _)
FracDigits(r, d, k) ==
    IF r = 0 \/ k = 0 THEN ""
    ELSE ToString((r * 10) \div d) \o FracDigits((r * 10) % d, d, k - 1)

f64_to_string(q) ==
    IF q.d = 0 THEN (IF q.n > 0 THEN "inf" ELSE IF q.n < 0 THEN "-inf" ELSE "NaN")
    ELSE IF q.d = 1 THEN ToString(q.n)
    ELSE (IF q.n < 0 THEN "-" ELSE "") \o ToString(Abs(q.n) \div q.d) \o "."
         \o FracDigits(Abs(q.n) % q.d, q.d, F64Digits)

ends_with_dot0(str) == Len(str) >= 2 /\ SubSeq(str, Len(str) - 1, Len(str)) = ".0"

Value_fmt(value) ==
    CASE value.val = "String_" -> value.s
      [] value.val = "Nil" -> "nil"
      [] value.val = "Number" ->
            LET str == f64_to_string(value.num) IN
            IF ends_with_dot0(str) THEN SubSeq(str, 1, Len(str) - 2) ELSE str
      [] value.val = "Bool" -> IF value.b THEN "true" ELSE "false"

(***************************************************************************)
(* interpreter.rs: expression evaluation.  evaluate returns the value, the *)
(* interpreter it leaves behind (assignments change its environment) and,  *)
(* when the evaluation panicked, ok = FALSE with the panic message.        *)
(***************************************************************************)
Interpreter_new == [environment |-> Environment_default]

is_truthy(value) ==
    IF value.val = "Bool" THEN value.b ELSE value.val # "Nil"

\* f64::EPSILON is 2^-52: |n/d| < 2^-52 iff |n| * 2^52 < d.
TwoPow26 == 67108864

BelowEpsilon(q) ==
    /\ q.d # 0
    /\ \/ q.n = 0
       \/ LET w == q.d \div Abs(q.n) IN
            \/ (w \div TwoPow26) > TwoPow26
            \/ (w \div TwoPow26) = TwoPow26 /\ (w % TwoPow26 # 0 \/ q.d % Abs(q.n) # 0)

is_equal(a, b) ==
    CASE a.val = "Nil" /\ b.val = "Nil" -> TRUE
      [] a.val = "Bool" /\ b.val = "Bool" -> a.b = b.b
      [] a.val = "String_" /\ b.val = "String_" -> a.s = b.s
      [] a.val = "Number" /\ b.val = "Number" -> BelowEpsilon(RatSub(a.num, b.num))
      [] OTHER -> FALSE

Evaluated(self, value) == [ok |-> TRUE, value |-> value, self |-> self, err |-> ""]
Panicked(self, err) == [ok |-> FALSE, value |-> Value_Nil, self |-> self, err |-> err]

BothNumbers(left, right) == left.val = "Number" /\ right.val = "Number"
BothStrings(left, right) == left.val = "String_" /\ right.val = "String_"

\* The match on operator.type_ of visit_binary_expr, once both operands
\* have been evaluated.
binary_match(self, left, type_, right) ==
    CASE type_ = "Minus" ->
            IF BothNumbers(left, right) THEN Evaluated(self, Value_Number(RatSub(left.num, right.num)))
            ELSE Panicked(self, "must be numbers")
      [] type_ = "Slash" ->
            IF BothNumbers(left, right) THEN Evaluated(self, Value_Number(RatDiv(left.num, right.num)))
            ELSE Panicked(self, "must be numbers")
      [] type_ = "Star" ->
            IF BothNumbers(left, right) THEN Evaluated(self, Value_Number(RatMul(left.num, right.num)))
            ELSE Panicked(self, "must be numbers")
      [] type_ = "Plus" ->
            IF BothNumbers(left, right) THEN Evaluated(self, Value_Number(RatAdd(left.num, right.num)))
            ELSE IF BothStrings(left, right) THEN Evaluated(self, Value_String_(left.s \o right.s))
            ELSE Panicked(self, "must both be numbers or both be strings")
      [] type_ = "Greater" ->
            IF BothNumbers(left, right) THEN Evaluated(self, Value_Bool(RatLess(right.num, left.num)))
            ELSE Panicked(self, "must be numbers")
      [] type_ = "GreaterEqual" ->
            IF BothNumbers(left, right) THEN Evaluated(self, Value_Bool(~RatLess(left.num, right.num)))
            ELSE Panicked(self, "must be numbers")
      [] type_ = "Less" ->
            IF BothNumbers(left, right) THEN Evaluated(self, Value_Bool(RatLess(left.num, right.num)))
            ELSE Panicked(self, "must be numbers")
      [] type_ = "LessEqual" ->
            IF BothNumbers(left, right) THEN Evaluated(self, Value_Bool(~RatLess(right.num, left.num)))
            ELSE Panicked(self, "must be numbers")
      [] type_ = "BangEqual" -> Evaluated(self, Value_Bool(~is_equal(left, right)))
      [] type_ = "EqualEqual" -> Evaluated(self, Value_Bool(is_equal(left, right)))
      [] OTHER -> Evaluated(self, Value_Nil)

RECURSIVE evaluate(_, _)

visit_logical_expr(self, left, operator, right) ==
    Only({ IF ~l.ok THEN l
           ELSE IF operator.type_ = "Or"
           THEN (IF is_truthy(l.value) THEN l ELSE evaluate(l.self, right))
           ELSE IF ~is_truthy(l.value) THEN l
           ELSE evaluate(l.self, right)
         : l \in {evaluate(self, left)} })

assign_result(v, a) ==
    IF a.ok THEN Evaluated([v.self EXCEPT !.environment = a.self], v.value)
    ELSE Panicked([v.self EXCEPT !.environment = a.self], a.err)

visit_assign_expr(self, name, value) ==
    Only({ IF ~v.ok THEN v
           ELSE Only({ assign_result(v, a)
                     : a \in {assign(v.self.environment, name.lexeme, v.value)} })
         : v \in {evaluate(self, value)} })

visit_binary_expr(self, left, operator, right) ==
    Only({ IF ~l.ok THEN l
           ELSE Only({ IF ~r.ok THEN r
                       ELSE binary_match(r.self, l.value, operator.type_, r.value)
                     : r \in {evaluate(l.self, right)} })
         : l \in {evaluate(self, left)} })

visit_grouping_expr(self, expression) == evaluate(self, expression)

visit_literal_expr(self, value) == Evaluated(self, Value_from(value))

visit_unary_expr(self, operator, right) ==
    Only({ IF ~r.ok THEN r
           ELSE CASE operator.type_ = "Minus" ->
                       IF r.value.val = "Number"
                       THEN Evaluated(r.self, Value_Number(RatSub(Rat(0, 1), r.value.num)))
                       ELSE Panicked(r.self, "must be a number")
                  [] operator.type_ = "Bang" -> Evaluated(r.self, Value_Bool(~is_truthy(r.value)))
                  [] OTHER -> Evaluated(r.self, Value_Nil)
         : r \in {evaluate(self, right)} })

visit_variable_expr(self, name) ==
    Only({ IF g.ok THEN Evaluated(self, g.value) ELSE Panicked(self, g.err)
         : g \in {get(self.environment, name.lexeme)} })

evaluate(self, expr) ==
    CASE expr.e = "Assign" -> visit_assign_expr(self, expr.name, expr.value)
      [] expr.e = "Binary" -> visit_binary_expr(self, expr.left, expr.operator, expr.right)
      [] expr.e = "Grouping" -> visit_grouping_expr(self, expr.expression)
      [] expr.e = "Literal" -> visit_literal_expr(self, expr.literal)
      [] expr.e = "Unary" -> visit_unary_expr(self, expr.operator, expr.right)
      [] expr.e = "Variable" -> visit_variable_expr(self, expr.name)
      [] expr.e = "Logical" -> visit_logical_expr(self, expr.left, expr.operator, expr.right)

(***************************************************************************)
(* interpreter.rs: statement execution, one step per call or loop turn.    *)
(* A frame is a call in progress:                                          *)
(*   "interpret"  the for loop of interpret, about to run stmts[idx];      *)
(*   "block"      the for loop of execute_block, with its saved `previous`;*)
(*   "execute"    a call execute(stmt) that has not started, or the while  *)
(*                loop of visit_while_stmt about to evaluate its condition.*)
(***************************************************************************)
Frame_interpret(stmts, idx) == [k |-> "interpret", stmts |-> stmts, idx |-> idx, previous |-> <<>>, stmt |-> <<>>]
Frame_block(stmts, idx, previous) == [k |-> "block", stmts |-> stmts, idx |-> idx, previous |-> <<previous>>, stmt |-> <<>>]
Frame_execute(stmt) == [k |-> "execute", stmts |-> <<>>, idx |-> 0, previous |-> <<>>, stmt |-> <<stmt>>]

Running == exec_pc = "running" /\ frames # <<>>
Top == frames[1]
Executing(kind) == Running /\ Top.k = "execute" /\ Top.stmt[1].s = kind

\* A panic unwinds the whole call stack and ends the process.
Panic(self, err) ==
    /\ exec_pc' = "panicked"
    /\ interpreter' = self
    /\ frames' = <<>>
    /\ stderr' = Append(stderr, err)
    /\ UNCHANGED stdout

\* interpret: the next turn of `for statement in statements`.
InterpretNext ==
    /\ Running /\ Top.k = "interpret" /\ Top.idx <= Len(Top.stmts)
    /\ frames' = <<Frame_execute(Top.stmts[Top.idx]), [Top EXCEPT !.idx = @ + 1]>> \o Tail(frames)
    /\ UNCHANGED <<interpreter, exec_pc, program, ioVars, envVars, scanVars, parseVars>>

\* interpret: the loop is over and interpret returns.
InterpretReturn ==
    /\ Running /\ Top.k = "interpret" /\ Top.idx > Len(Top.stmts)
    /\ frames' = Tail(frames)
    /\ exec_pc' = "returned"
    /\ UNCHANGED <<interpreter, program, ioVars, envVars, scanVars, parseVars>>

\* execute_block as it would be if it left the block's scope in place.
execute_block_exit_keeping(self, previous) == self

\* The last line of execute_block: self.environment = previous.
execute_block_exit(self, previous) == [self EXCEPT !.environment = previous]

\* visit_block_stmt and the first two lines of execute_block.
VisitBlockStmt ==
    /\ Executing("Block")
    /\ frames' = <<Frame_block(Top.stmt[1].stmts, 1, interpreter.environment)>> \o Tail(frames)
    /\ interpreter' = [interpreter EXCEPT !.environment = new_from(interpreter.environment)]
    /\ UNCHANGED <<exec_pc, program, ioVars, envVars, scanVars, parseVars>>

\* execute_block: the next turn of `for statement in statements`.
ExecuteBlockNext ==
    /\ Running /\ Top.k = "block" /\ Top.idx <= Len(Top.stmts)
    /\ frames' = <<Frame_execute(Top.stmts[Top.idx]), [Top EXCEPT !.idx = @ + 1]>> \o Tail(frames)
    /\ UNCHANGED <<interpreter, exec_pc, program, ioVars, envVars, scanVars, parseVars>>

\* execute_block: the loop is over, the saved environment is put back.
ExecuteBlockReturn ==
    /\ Running /\ Top.k = "block" /\ Top.idx > Len(Top.stmts)
    /\ interpreter' = execute_block_exit(interpreter, Top.previous[1])
    /\ frames' = Tail(frames)
    /\ UNCHANGED <<exec_pc, program, ioVars, envVars, scanVars, parseVars>>

VisitExpressionStmt ==
    /\ Executing("Expression")
    /\ LET r == evaluate(interpreter, Top.stmt[1].expr) IN
       IF r.ok
       THEN /\ interpreter' = r.self
            /\ frames' = Tail(frames)
            /\ UNCHANGED <<exec_pc, stdout, stderr>>
       ELSE Panic(r.self, r.err)
    /\ UNCHANGED <<program, HAD_ERROR, envVars, scanVars, parseVars>>

VisitPrintStmt ==
    /\ Executing("Print")
    /\ LET r == evaluate(interpreter, Top.stmt[1].expr) IN
       IF r.ok
       THEN /\ interpreter' = r.self
            /\ stdout' = Append(stdout, Value_fmt(r.value))
            /\ frames' = Tail(frames)
            /\ UNCHANGED <<exec_pc, stderr>>
       ELSE Panic(r.self, r.err)
    /\ UNCHANGED <<program, HAD_ERROR, envVars, scanVars, parseVars>>

VisitVarStmt ==
    /\ Executing("Var")
    /\ LET stmt == Top.stmt[1]
           r == IF stmt.initializer = <<>> THEN Evaluated(interpreter, Value_Nil)
                ELSE evaluate(interpreter, stmt.initializer[1])
       IN IF r.ok
          THEN /\ interpreter' = [r.self EXCEPT !.environment = define(@, stmt.name.lexeme, r.value)]
               /\ frames' = Tail(frames)
               /\ UNCHANGED <<exec_pc, stdout, stderr>>
          ELSE Panic(r.self, r.err)
    /\ UNCHANGED <<program, HAD_ERROR, envVars, scanVars, parseVars>>

VisitIfStmt ==
    /\ Executing("If")
    /\ LET stmt == Top.stmt[1]
           r == evaluate(interpreter, stmt.condition)
       IN IF r.ok
          THEN /\ interpreter' = r.self
               /\ frames' = IF is_truthy(r.value)
                            THEN <<Frame_execute(stmt.then_branch)>> \o Tail(frames)
                            ELSE IF stmt.else_branch # <<>>
                            THEN <<Frame_execute(stmt.else_branch[1])>> \o Tail(frames)
                            ELSE Tail(frames)
               /\ UNCHANGED <<exec_pc, stdout, stderr>>
          ELSE Panic(r.self, r.err)
    /\ UNCHANGED <<program, HAD_ERROR, envVars, scanVars, parseVars>>

\* One turn of the while loop of visit_while_stmt: the condition is
\* evaluated and either the body is executed or the loop is left.
VisitWhileStmt ==
    /\ Executing("While")
    /\ LET stmt == Top.stmt[1]
           r == evaluate(interpreter, stmt.condition)
       IN IF r.ok
          THEN /\ interpreter' = r.self
               /\ frames' = IF is_truthy(r.value)
                            THEN <<Frame_execute(stmt.body)>> \o frames
                            ELSE Tail(frames)
               /\ UNCHANGED <<exec_pc, stdout, stderr>>
          ELSE Panic(r.self, r.err)
    /\ UNCHANGED <<program, HAD_ERROR, envVars, scanVars, parseVars>>

(***************************************************************************)
(* InterpSpec: interpret run on a fresh Interpreter over each of a set of  *)
(* programs, given as the statement trees the parser's grammar describes.  *)
(***************************************************************************)
Tok(type_, lexeme) == Token_new(type_, lexeme, <<>>, 1)
Ident(name) == Tok("Identifier", name)
Var(name) == Expr_Variable(Ident(name))
Num(k) == Expr_Literal(Literal_Number(Rat(k, 1)))
Str(str) == Expr_Literal(Literal_String_(str))
Bin(left, type_, right) == Expr_Binary(left, Tok(type_, type_), right)
Set(name, value) == Stmt_Expression(Expr_Assign(Ident(name), value))
Decl(name, value) == Stmt_Var(Ident(name), <<value>>)

\* var i = 0; var s = 0; while (i < 5) { s = s + i; i = i + 1; } print s;
LoopProgram ==
    << Decl("i", Num(0)), Decl("s", Num(0)),
       Stmt_While(Bin(Var("i"), "Less", Num(5)),
                  Stmt_Block(<< Set("s", Bin(Var("s"), "Plus", Var("i"))),
                                Set("i", Bin(Var("i"), "Plus", Num(1))) >>)),
       Stmt_Print(Var("s")) >>

\* var x = 1; { var x = 2; } print x;
ScopeProgram ==
    << Decl("x", Num(1)), Stmt_Block(<< Decl("x", Num(2)) >>), Stmt_Print(Var("x")) >>

\* x = 1;
AssignUndeclaredProgram == << Set("x", Num(1)) >>

\* var x = p; { var x = p + 1; var y; { var x = "in"; print x; y = x; } print x; } print x;
NestedScopeProgram(p) ==
    << Decl("x", Num(p)),
       Stmt_Block(<< Decl("x", Bin(Num(p), "Plus", Num(1))),
                     Stmt_Var(Ident("y"), <<>>),
                     Stmt_Block(<< Decl("x", Str("in")), Stmt_Print(Var("x")),
                                   Set("y", Var("x")) >>),
                     Stmt_Print(Var("x")) >>),
       Stmt_Print(Var("x")) >>

\* var y = p; { { x = 1; } } print y;
NestedAssignUndeclaredProgram(p) ==
    << Decl("y", Num(p)), Stmt_Block(<< Stmt_Block(<< Set("x", Num(1)) >>) >>),
       Stmt_Print(Var("y")) >>

\* var i = 0; while (i < p) i = i + 1; print i;
GlobalLoopProgram(p) ==
    << Decl("i", Num(0)),
       Stmt_While(Bin(Var("i"), "Less", Num(p)), Set("i", Bin(Var("i"), "Plus", Num(1)))),
       Stmt_Print(Var("i")) >>

\* var a = "a"; if (!nil and a == "a") print a + "b"; else print 0;
\* if (p > 1 or false) { print -(p * 2) - p / 2; } if (p != 2) print p >= 3; x = 1;
MixedProgram(p) ==
    << Decl("a", Str("a")),
       Stmt_If(Expr_Logical(Expr_Unary(Tok("Bang", "!"), Expr_Literal(Literal_Nil)),
                            Tok("And", "and"),
                            Bin(Var("a"), "EqualEqual", Str("a"))),
               Stmt_Print(Bin(Var("a"), "Plus", Str("b"))),
               << Stmt_Print(Num(0)) >>),
       Stmt_If(Expr_Logical(Bin(Num(p), "Greater", Num(1)), Tok("Or", "or"),
                            Expr_Literal(Literal_Bool(FALSE))),
               Stmt_Block(<< Stmt_Print(Bin(Expr_Unary(Tok("Minus", "-"),
                                                     Expr_Grouping(Bin(Num(p), "Star", Num(2)))),
                                            "Minus", Bin(Num(p), "Slash", Num(2)))) >>),
               <<>>),
       Stmt_If(Bin(Num(p), "BangEqual", Num(2)),
               Stmt_Print(Bin(Num(p), "GreaterEqual", Num(3))), <<>>),
       Set("x", Num(1)) >>

\* var n = p; if (n <= 1) print n + "a"; print z;
PanicProgram(p) ==
    << Decl("n", Num(p)),
       Stmt_If(Bin(Var("n"), "LessEqual", Num(1)), Stmt_Print(Bin(Var("n"), "Plus", Str("a"))), <<>>),
       Stmt_Print(Var("z")) >>

\* var i = 0; while (i < p) { var t = i; i = t + 1; } print i;
BlockLoopProgram(p) ==
    << Decl("i", Num(0)),
       Stmt_While(Bin(Var("i"), "Less", Num(p)),
                  Stmt_Block(<< Decl("t", Var("i")), Set("i", Bin(Var("t"), "Plus", Num(1))) >>)),
       Stmt_Print(Var("i")) >>

NumPrograms == 9

Statements(prog) ==
    CASE prog.id = 1 -> LoopProgram
      [] prog.id = 2 -> ScopeProgram
      [] prog.id = 3 -> AssignUndeclaredProgram
      [] prog.id = 4 -> NestedScopeProgram(prog.param)
      [] prog.id = 5 -> NestedAssignUndeclaredProgram(prog.param)
      [] prog.id = 6 -> GlobalLoopProgram(prog.param)
      [] prog.id = 7 -> MixedProgram(prog.param)
      [] prog.id = 8 -> PanicProgram(prog.param)
      [] prog.id = 9 -> BlockLoopProgram(prog.param)

Programs ==
    {[id |-> i, param |-> 0] : i \in 1..3}
        \cup {[id |-> i, param |-> p] : i \in 4..NumPrograms, p \in 0..MaxParam}

InterpInit ==
    /\ program \in Programs
    /\ interpreter = Interpreter_new
    /\ frames = <<Frame_interpret(Statements(program), 1)>>
    /\ exec_pc = "running"
    /\ IdleEnv /\ IdleScanner /\ IdleParser /\ IdleIo

InterpNext ==
    \/ InterpretNext \/ InterpretReturn
    \/ VisitBlockStmt \/ ExecuteBlockNext \/ ExecuteBlockReturn
    \/ VisitExpressionStmt \/ VisitPrintStmt \/ VisitVarStmt
    \/ VisitIfStmt \/ VisitWhileStmt

InterpSpec == InterpInit /\ [][InterpNext]_vars

\* The evaluator is single-threaded and synchronous: a call that can take
\* its next step takes it.
InterpFairSpec == InterpSpec /\ WF_vars(InterpNext)

\* C1: the loop program terminates and prints 10: the assignments made to
\* i and s inside the loop body's block reach the next evaluation of the
\* loop condition and the final print.
C1_LoopTerminatesPrinting10 ==
    (program.id = 1) => <>(exec_pc = "returned" /\ stdout = <<"10">>)

BlockFrames == {i \in 1..Len(frames) : frames[i].k = "block"}
BlockFinishing == Running /\ Top.k = "block" /\ Top.idx > Len(Top.stmts)

\* C3: a block runs in a scope enclosed by the current one and the previous
\* scope is put back when the block finishes: the scope chain is one scope
\* per block in progress above the global scope; the step that finishes a
\* block makes the block's enclosing scope current, and every name then
\* resolves as it did when the block was entered; the scope program prints 1.
C3_BlockRestoresScope ==
    /\ [](exec_pc = "running" => Depth(interpreter.environment) = 1 + Cardinality(BlockFrames))
    /\ [][BlockFinishing =>
            /\ interpreter'.environment = interpreter.environment.enclosing[1]
            /\ \A name \in BoundNames(interpreter.environment) :
                  get(interpreter'.environment, name) = get(Top.previous[1], name)]_vars
    /\ []((program.id = 2 /\ exec_pc = "returned") => stdout = <<"1">>)

C3_Witness ==
    /\ program.id = 4 /\ exec_pc = "returned"
    /\ stdout = <<"in", ToString(program.param + 1), ToString(program.param)>>

AssigningUndeclared ==
    /\ Executing("Expression")
    /\ Top.stmt[1].expr.e = "Assign"
    /\ Top.stmt[1].expr.value.e = "Literal"
    /\ ~get(interpreter.environment, Top.stmt[1].expr.name.lexeme).ok

\* C4: evaluating `x = <literal>;` when no scope of the current chain
\* defines x fails with the undefined-variable error and leaves every scope
\* of the chain as it was: no scope gains a binding for x.
C4_AssignUndeclaredFails ==
    [][AssigningUndeclared =>
        LET name == Top.stmt[1].expr.name.lexeme IN
        /\ exec_pc' = "panicked"
        /\ stderr' = Append(stderr, UndefinedVariable(name))
        /\ interpreter'.environment = interpreter.environment
        /\ name \notin BoundNames(interpreter'.environment)
        /\ stdout' = stdout]_vars

C4_Witness ==
    /\ program.id \in {3, 5, 7} /\ exec_pc = "panicked"
    /\ stderr = <<UndefinedVariable("x")>>
    /\ "x" \notin BoundNames(interpreter.environment)

(***************************************************************************)
(* scanner.rs.  A method of Scanner returns the scanner it leaves behind   *)
(* in `self`; a method that can panic says so in `ok`, and scan_token also *)
(* returns the lines it had crate::error report.                           *)
(***************************************************************************)
Digits == {"0", "1", "2", "3", "4", "5", "6", "7", "8", "9"}
Letters ==
    {"a", "b", "c", "d", "e", "f", "g", "h", "i", "j", "k", "l", "m", "n", "o", "p", "q",
     "r", "s", "t", "u", "v", "w", "x", "y", "z", "A", "B", "C", "D", "E", "F", "G", "H",
     "I", "J", "K", "L", "M", "N", "O", "P", "Q", "R", "S", "T", "U", "V", "W", "X", "Y",
     "Z"}
NUL == "NUL"   \* the character '\0'

KEYWORDS ==
    [text \in {"and", "class", "else", "false", "for", "fun", "if", "nil", "or", "print",
               "return", "super", "this", "true", "var", "while"} |->
        CASE text = "and" -> "And"
          [] text = "class" -> "Class"
          [] text = "else" -> "Else"
          [] text = "false" -> "False"
          [] text = "for" -> "For"
          [] text = "fun" -> "Fun"
          [] text = "if" -> "If"
          [] text = "nil" -> "Nil"
          [] text = "or" -> "Or"
          [] text = "print" -> "Print"
          [] text = "return" -> "Return"
          [] text = "super" -> "Super"
          [] text = "this" -> "This"
          [] text = "true" -> "True"
          [] text = "var" -> "Var"
          [] text = "while" -> "While"]

\* The String made of a sequence of characters.
RECURSIVE to_owned(_)
to_owned(chars) == IF chars = <<>> THEN "" ELSE chars[1] \o to_owned(Tail(chars))

is_digit(c) == c \in Digits
is_alphanumeric(c) == c \in Letters \/ c \in Digits \/ c = "_"

\* &source[a..b]: panics unless a <= b <= source.len().
Slice(source, a, b) ==
    IF a <= b /\ b <= Len(source)
    THEN [ok |-> TRUE, text |-> SubSeq(source, a + 1, b)]
    ELSE [ok |-> FALSE, text |-> <<>>]

RECURSIVE DigitsValue(_)
DigitsValue(chars) ==
    IF chars = <<>> THEN 0
    ELSE 10 * DigitsValue(SubSeq(chars, 1, Len(chars) - 1))
         + (CHOOSE k \in 0..9 : ToString(k) = chars[Len(chars)])

RECURSIVE Pow10(_)
Pow10(k) == IF k = 0 THEN 1 ELSE 10 * Pow10(k - 1)

\* f64::from_str on a text of digits and dots: Ok when the text has a digit
\* and at most one dot ("5." and ".5" are accepted, "" and "." are not).
f64_from_str(chars) ==
    LET dots == {i \in 1..Len(chars) : chars[i] = "."}
        digits == {i \in 1..Len(chars) : is_digit(chars[i])}
    IN IF digits = {} \/ Cardinality(dots) > 1 \/ Cardinality(dots) + Cardinality(digits) # Len(chars)
       THEN [ok |-> FALSE, value |-> Rat(0, 1)]
       ELSE IF dots = {}
       THEN [ok |-> TRUE, value |-> Rat(DigitsValue(chars), 1)]
       ELSE LET dot == CHOOSE i \in dots : TRUE
                whole == SubSeq(chars, 1, dot - 1)
                frac == SubSeq(chars, dot + 1, Len(chars))
            IN [ok |-> TRUE, value |-> Rat(DigitsValue(whole \o frac), Pow10(Len(frac)))]

Scanner_new(source) == [source |-> source, tokens |-> <<>>, start |-> 0, current |-> 0, line |-> 1]

Scanner_is_at_end(self) == self.current >= Len(self.source)

\* advance: the unwrap panics when there is no character at current - 1.
Scanner_advance(self) ==
    IF self.current + 1 <= Len(self.source)
    THEN [ok |-> TRUE, self |-> [self EXCEPT !.current = @ + 1], c |-> self.source[self.current + 1]]
    ELSE [ok |-> FALSE, self |-> [self EXCEPT !.current = @ + 1], c |-> NUL]

Scanner_peek(self) ==
    IF Scanner_is_at_end(self) THEN NUL ELSE self.source[self.current + 1]

peek_next(self) ==
    IF self.current + 1 >= Len(self.source) THEN NUL ELSE self.source[self.current + 2]

add_full_token(self, type_, literal) ==
    LET lexeme == Slice(self.source, self.start, self.current) IN
    IF lexeme.ok
    THEN [ok |-> TRUE,
          self |-> [self EXCEPT !.tokens = Append(@, Token_new(type_, to_owned(lexeme.text), literal, self.line))]]
    ELSE [ok |-> FALSE, self |-> self]

add_token(self, type_) == add_full_token(self, type_, <<>>)

Scanner_matches(self, expected) ==
    IF Scanner_is_at_end(self) THEN [self |-> self, matched |-> TRUE]
    ELSE IF expected = self.source[self.current + 1]
    THEN [self |-> [self EXCEPT !.current = @ + 1], matched |-> TRUE]
    ELSE [self |-> self, matched |-> FALSE]

increment_line(self) == [self EXCEPT !.line = @ + 1]

Scanned(self) == [ok |-> TRUE, self |-> self, reports |-> <<>>]
ScanPanicked(self, reports) == [ok |-> FALSE, self |-> self, reports |-> reports]
FromAdd(added, reports) == [ok |-> added.ok, self |-> added.self, reports |-> reports]

\* report of main.rs, called through error(line, message) with where_ = "".
report(line, where_, message) ==
    "[line " \o ToString(line) \o "] Error" \o where_ \o ": " \o message

\* The loop `while self.peek() != '"' && !self.is_at_end()` of string.
RECURSIVE string_loop(_)
string_loop(self) ==
    IF Scanner_peek(self) # "\"" /\ ~Scanner_is_at_end(self)
    THEN string_loop(Scanner_advance(IF Scanner_peek(self) = "\n" THEN increment_line(self) ELSE self).self)
    ELSE self

string(self) ==
    Only({ LET reports == IF Scanner_is_at_end(s1)
                          THEN <<report(s1.line, "", "Unterminated string.")>> ELSE <<>>
               adv == Scanner_advance(s1)
           IN IF ~adv.ok THEN ScanPanicked(adv.self, reports)
              ELSE LET text == Slice(adv.self.source, adv.self.start + 1, adv.self.current - 1) IN
                   IF ~text.ok THEN ScanPanicked(adv.self, reports)
                   ELSE FromAdd(add_full_token(adv.self, "String_", <<Literal_String_(to_owned(text.text))>>),
                                reports)
         : s1 \in {string_loop(self)} })

\* The loops `while self.peek().is_digit(10) { self.advance(); }` of number.
RECURSIVE digits_loop(_)
digits_loop(self) ==
    IF is_digit(Scanner_peek(self)) THEN digits_loop(Scanner_advance(self).self) ELSE self

number(self) ==
    Only({ LET text == Slice(s2.source, s2.start + 1, s2.current - 1) IN
           IF ~text.ok THEN ScanPanicked(s2, <<>>)
           ELSE LET parsed == f64_from_str(text.text) IN
                IF ~parsed.ok THEN ScanPanicked(s2, <<>>)
                ELSE FromAdd(add_full_token(s2, "Number", <<Literal_Number(parsed.value)>>), <<>>)
         : s2 \in { IF Scanner_peek(s1) = "." /\ is_digit(peek_next(s1))
                    THEN digits_loop(Scanner_advance(s1).self) ELSE s1
                  : s1 \in {digits_loop(self)} } })

\* The loop `while is_alphanumeric(self.peek()) { self.advance(); }`.
RECURSIVE identifier_loop(_)
identifier_loop(self) ==
    IF is_alphanumeric(Scanner_peek(self)) THEN identifier_loop(Scanner_advance(self).self) ELSE self

identifier(self) ==
    Only({ LET text == Slice(s1.source, s1.start + 1, s1.current - 1) IN
           IF ~text.ok THEN ScanPanicked(s1, <<>>)
           ELSE LET key == to_owned(text.text)
                    type_ == IF key \in DOMAIN KEYWORDS THEN KEYWORDS[key] ELSE "Identifier"
                IN FromAdd(add_token(s1, type_), <<>>)
         : s1 \in {identifier_loop(self)} })

\* The loop `while self.peek() != '\n' && !self.is_at_end()` of a comment.
RECURSIVE comment_loop(_)
comment_loop(self) ==
    IF Scanner_peek(self) # "\n" /\ ~Scanner_is_at_end(self)
    THEN comment_loop(Scanner_advance(self).self) ELSE self

\* The arms '!', '=', '<', '>' of scan_token.
one_or_two(self, with_equal, plain) ==
    Only({ FromAdd(add_token(m.self, IF m.matched THEN with_equal ELSE plain), <<>>)
         : m \in {Scanner_matches(self, "=")} })

scan_token(self0) ==
    Only({ IF ~adv.ok THEN ScanPanicked(adv.self, <<>>)
           ELSE LET self == adv.self
                    c == adv.c
                IN CASE c = "(" -> FromAdd(add_token(self, "LeftParen"), <<>>)
                     [] c = ")" -> FromAdd(add_token(self, "RightParen"), <<>>)
                     [] c = "{" -> FromAdd(add_token(self, "LeftBrace"), <<>>)
                     [] c = "}" -> FromAdd(add_token(self, "RightBrace"), <<>>)
                     [] c = "," -> FromAdd(add_token(self, "Comma"), <<>>)
                     [] c = "." -> FromAdd(add_token(self, "Dot"), <<>>)
                     [] c = "-" -> FromAdd(add_token(self, "Minus"), <<>>)
                     [] c = "+" -> FromAdd(add_token(self, "Plus"), <<>>)
                     [] c = ";" -> FromAdd(add_token(self, "Semicolon"), <<>>)
                     [] c = "*" -> FromAdd(add_token(self, "Star"), <<>>)
                     [] c = "!" -> one_or_two(self, "BangEqual", "Bang")
                     [] c = "=" -> one_or_two(self, "EqualEqual", "Equal")
                     [] c = "<" -> one_or_two(self, "LessEqual", "Less")
                     [] c = ">" -> one_or_two(self, "GreaterEqual", "Greater")
                     [] c = "/" ->
                          Only({ IF m.matched THEN Scanned(comment_loop(m.self))
                                 ELSE FromAdd(add_token(m.self, "Slash"), <<>>)
                               : m \in {Scanner_matches(self, "/")} })
                     [] c \in {" ", "\r", "\t"} -> Scanned(self)
                     [] c = "\n" -> Scanned(increment_line(self))
                     [] c = "\"" -> string(self)
                     [] OTHER ->
                          IF is_digit(c) THEN number(self)
                          ELSE IF is_alphanumeric(c) THEN identifier(self)
                          ELSE [ok |-> TRUE, self |-> self,
                                reports |-> <<report(self.line, "", "Unexpected character")>>]
         : adv \in {Scanner_advance(self0)} })

\* scan_tokens as it would be if it returned without the end marker.
scan_tokens_end_unmarked(self) == self

\* The last two lines of scan_tokens.
scan_tokens_end(self) ==
    [self EXCEPT !.tokens = Append(@, Token_new("Eof", "", <<>>, self.line))]

(***************************************************************************)
(* ScanSpec: scan_tokens run on a new Scanner over every source text of    *)
(* at most MaxSrcLen characters of SourceChars.                            *)
(***************************************************************************)
SourceChars == {"1", ".", "o", "r", "x", "!", "=", "<", ">", "\"", " ", "\n", "/", "@"}
Sources == UNION {[1..n -> SourceChars] : n \in 0..MaxSrcLen}

ScanInit ==
    /\ \E source \in Sources : scanner = Scanner_new(source)
    /\ scan_pc = "scanning"
    /\ IdleEnv /\ IdleParser /\ IdleInterpreter /\ IdleIo

\* One turn of the while loop of scan_tokens.
ScanToken ==
    /\ scan_pc = "scanning" /\ ~Scanner_is_at_end(scanner)
    /\ LET r == scan_token([scanner EXCEPT !.start = scanner.current]) IN
       /\ scanner' = r.self
       /\ stdout' = stdout \o r.reports
       /\ HAD_ERROR' = (HAD_ERROR \/ r.reports # <<>>)
       /\ scan_pc' = IF r.ok THEN "scanning" ELSE "panicked"
       /\ stderr' = IF r.ok THEN stderr ELSE Append(stderr, "scanner panicked")
    /\ UNCHANGED <<envVars, parseVars, interpVars>>

\* The loop is over: the end marker is pushed and the tokens are returned.
ScanTokensReturn ==
    /\ scan_pc = "scanning" /\ Scanner_is_at_end(scanner)
    /\ scanner' = scan_tokens_end(scanner)
    /\ scan_pc' = "returned"
    /\ UNCHANGED <<envVars, parseVars, interpVars, ioVars>>

ScanNext == ScanToken \/ ScanTokensReturn

ScanSpec == ScanInit /\ [][ScanNext]_vars

ScanOver == scan_pc \in {"returned", "panicked"}

\* A valid numeric literal: digits, optionally followed by `.` and digits.
IsNumericLiteral(chars) ==
    /\ chars # <<>>
    /\ \A i \in 1..Len(chars) : is_digit(chars[i]) \/ chars[i] = "."
    /\ Cardinality({i \in 1..Len(chars) : chars[i] = "."}) <= 1
    /\ is_digit(chars[1]) /\ is_digit(chars[Len(chars)])

\* C5: a source that is one valid numeric literal is scanned into one Number
\* token whose literal is the number the whole lexeme denotes, and the
\* literal expression of that token evaluates to the same number.
C5_NumberLiteralDenotesLexeme ==
    (ScanOver /\ IsNumericLiteral(scanner.source)) =>
        /\ scan_pc = "returned"
        /\ Len(scanner.tokens) = 2
        /\ scanner.tokens[1].type_ = "Number"
        /\ scanner.tokens[1].lexeme = to_owned(scanner.source)
        /\ scanner.tokens[1].literal = <<Literal_Number(f64_from_str(scanner.source).value)>>
        /\ evaluate(Interpreter_new, Expr_Literal(scanner.tokens[1].literal[1])).value
              = Value_Number(f64_from_str(scanner.source).value)

\* An identifier run: alphanumeric-or-underscore characters, the first of
\* which is not a digit.
IsIdentifierRun(chars) ==
    /\ chars # <<>>
    /\ \A i \in 1..Len(chars) : is_alphanumeric(chars[i])
    /\ ~is_digit(chars[1])

\* C6: the token emitted for an identifier run has the keyword's kind when
\* the whole run is a keyword and the kind Identifier otherwise.
C6_KeywordByWholeLexeme ==
    (scan_pc = "returned" /\ IsIdentifierRun(scanner.source)) =>
        /\ Len(scanner.tokens) = 2
        /\ scanner.tokens[1].lexeme = to_owned(scanner.source)
        /\ scanner.tokens[1].type_ =
              (IF to_owned(scanner.source) \in DOMAIN KEYWORDS
               THEN KEYWORDS[to_owned(scanner.source)] ELSE "Identifier")

WithEqual(c) ==
    CASE c = "!" -> "BangEqual" [] c = "=" -> "EqualEqual"
      [] c = "<" -> "LessEqual" [] c = ">" -> "GreaterEqual"

Plain(c) ==
    CASE c = "!" -> "Bang" [] c = "=" -> "Equal" [] c = "<" -> "Less" [] c = ">" -> "Greater"

\* C7: the step that reads one of ! = < > emits the =-suffixed kind exactly
\* when the next source character is `=`, and the plain kind otherwise, also
\* when the character read is the last one of the source.
C7_EqualSuffixIffNextIsEqual ==
    [][(scan_pc = "scanning" /\ ~Scanner_is_at_end(scanner)
          /\ scanner.source[scanner.current + 1] \in {"!", "=", "<", ">"}) =>
         LET c == scanner.source[scanner.current + 1]
             followed == scanner.current + 2 <= Len(scanner.source)
                            /\ scanner.source[scanner.current + 2] = "="
         IN /\ scan_pc' = "scanning"
            /\ Len(scanner'.tokens) = Len(scanner.tokens) + 1
            /\ scanner'.tokens[Len(scanner'.tokens)].type_
                  = (IF followed THEN WithEqual(c) ELSE Plain(c))]_vars

\* The source holds one string literal and it is never closed: there is one
\* `"` and no comment that could hide it.
HasUnterminatedString(chars) ==
    /\ Cardinality({i \in 1..Len(chars) : chars[i] = "\""}) = 1
    /\ \A i \in 1..Len(chars) : chars[i] # "/"

\* C8: with a string literal left unterminated at the end of the input, the
\* scanner reports an error, emits no String token for it and returns the
\* tokens scanned before it followed by the end marker.
C8_UnterminatedStringReported ==
    (ScanOver /\ HasUnterminatedString(scanner.source)) =>
        /\ scan_pc = "returned"
        /\ HAD_ERROR
        /\ \A i \in 1..Len(scanner.tokens) : scanner.tokens[i].type_ # "String_"
        /\ scanner.tokens[Len(scanner.tokens)].type_ = "Eof"

\* C9: the token sequence scan_tokens returns holds exactly one Eof token,
\* and it is the last one.
C9_OneEofLast ==
    (scan_pc = "returned") =>
        /\ scanner.tokens # <<>>
        /\ {i \in 1..Len(scanner.tokens) : scanner.tokens[i].type_ = "Eof"}
              = {Len(scanner.tokens)}

C9_Witness ==
    /\ scan_pc = "returned" /\ Len(scanner.tokens) >= 3
    /\ scanner.tokens[1].type_ = "LessEqual" /\ ~HAD_ERROR

(***************************************************************************)
(* parser.rs.  The value threaded through the parsing methods is the       *)
(* Parser struct with two more fields: reports, the lines report of        *)
(* main.rs printed so far, and panicked, set when an index went out of     *)
(* range.  A method returning Result<T> returns [ok, self, val].           *)
(***************************************************************************)
Parser_new(tokens) == [tokens |-> tokens, current |-> 0]

Threaded(self) ==
    [tokens |-> self.tokens, current |-> self.current, reports |-> <<>>, panicked |-> FALSE]

POk(self, val) == [ok |-> TRUE, self |-> self, val |-> val]
PErr(self) == [ok |-> FALSE, self |-> self, val |-> <<>>]

Parser_peek(self) == self.tokens[self.current + 1]

\* tokens[current - 1]; advance checks that current is not 0 before it is used.
Parser_previous(self) == self.tokens[self.current]

Parser_is_at_end(self) == Parser_peek(self).type_ = "Eof"

check(self, type_) ==
    IF Parser_is_at_end(self) THEN FALSE ELSE Parser_peek(self).type_ = type_

\* advance returns self.previous(): with current = 0 the index current - 1
\* is out of range and the call panics.
Parser_advance(self) ==
    IF ~Parser_is_at_end(self) THEN [self EXCEPT !.current = @ + 1]
    ELSE IF self.current = 0 THEN [self EXCEPT !.panicked = TRUE]
    ELSE self

Parser_matches(self, types) ==
    IF \E type_ \in types : check(self, type_)
    THEN [matched |-> TRUE, self |-> Parser_advance(self)]
    ELSE [matched |-> FALSE, self |-> self]

Reported(self, line) == [self EXCEPT !.reports = Append(@, line)]

\* error_at_token of main.rs
error_at_token(self, token, message) ==
    IF token.type_ = "Eof" THEN Reported(self, report(token.line, " at end", message))
    ELSE Reported(self, report(token.line, " at '" \o token.lexeme \o "'", message))

\* error of main.rs
error(self, line, message) == Reported(self, report(line, "", message))

consume(self, type_, message) ==
    IF check(self, type_)
    THEN POk(Parser_advance(self), Parser_peek(self))
    ELSE PErr(error_at_token(self, Parser_peek(self), message))

RECURSIVE expression(_)
RECURSIVE unary(_)
RECURSIVE assignment(_)
RECURSIVE declaration(_)

\* The message of the source quotes the parenthesis in backticks, which a
\* TLA+ string cannot hold.
grouping(self) ==
    Only({ IF ~expr.ok THEN expr
           ELSE Only({ IF closing.ok THEN POk(closing.self, Expr_Grouping(expr.val))
                       ELSE PErr(closing.self)
                     : closing \in {consume(expr.self, "RightParen", "Expect ')' after expression")} })
         : expr \in {expression(self)} })

primary(self) ==
    IF check(self, "False") THEN POk(Parser_advance(self), Expr_Literal(Literal_Bool(FALSE)))
    ELSE IF check(self, "True") THEN POk(Parser_advance(self), Expr_Literal(Literal_Bool(TRUE)))
    ELSE IF check(self, "Nil") THEN POk(Parser_advance(self), Expr_Literal(Literal_Nil))
    ELSE IF check(self, "Number") \/ check(self, "String_")
    THEN POk(Parser_advance(self),
             Expr_Literal(IF Parser_peek(self).literal # <<>> THEN Parser_peek(self).literal[1]
                          ELSE Literal_Nil))
    ELSE IF check(self, "Identifier") THEN POk(Parser_advance(self), Expr_Variable(Parser_peek(self)))
    ELSE IF check(self, "LeftParen") THEN grouping(Parser_advance(self))
    ELSE PErr(error_at_token(self, Parser_peek(self), "Expect expression"))

unary(self) ==
    Only({ IF m.matched
           THEN Only({ IF ~right.ok THEN right
                       ELSE POk(right.self, Expr_Unary(Parser_previous(m.self), right.val))
                     : right \in {unary(m.self)} })
           ELSE primary(self)
         : m \in {Parser_matches(self, {"Bang", "Minus"})} })

\* The while loop of factor: `left = Binary(left, operator, right)`.
RECURSIVE factor_loop(_, _)
factor_loop(self, expr) ==
    Only({ IF ~m.matched THEN POk(self, expr)
           ELSE Only({ IF ~right.ok THEN right
                       ELSE factor_loop(right.self, Expr_Binary(expr, Parser_previous(m.self), right.val))
                     : right \in {unary(m.self)} })
         : m \in {Parser_matches(self, {"Slash", "Star"})} })

factor(self) ==
    Only({ IF ~expr.ok THEN expr ELSE factor_loop(expr.self, expr.val)
         : expr \in {unary(self)} })

\* term_loop as it would be if the right operand of `+` and `-` were a unary
\* expression, not a factor.
RECURSIVE term_loop_flat(_, _)
term_loop_flat(self, expr) ==
    Only({ IF ~m.matched THEN POk(self, expr)
           ELSE Only({ IF ~right.ok THEN right
                       ELSE term_loop_flat(right.self, Expr_Binary(expr, Parser_previous(m.self), right.val))
                     : right \in {unary(m.self)} })
         : m \in {Parser_matches(self, {"Plus", "Minus"})} })

RECURSIVE term_loop(_, _)
term_loop(self, expr) ==
    Only({ IF ~m.matched THEN POk(self, expr)
           ELSE Only({ IF ~right.ok THEN right
                       ELSE term_loop(right.self, Expr_Binary(expr, Parser_previous(m.self), right.val))
                     : right \in {factor(m.self)} })
         : m \in {Parser_matches(self, {"Plus", "Minus"})} })

term(self) ==
    Only({ IF ~expr.ok THEN expr ELSE term_loop(expr.self, expr.val)
         : expr \in {factor(self)} })

RECURSIVE comparison_loop(_, _)
comparison_loop(self, expr) ==
    Only({ IF ~m.matched THEN POk(self, expr)
           ELSE Only({ IF ~right.ok THEN right
                       ELSE comparison_loop(right.self, Expr_Binary(expr, Parser_previous(m.self), right.val))
                     : right \in {term(m.self)} })
         : m \in {Parser_matches(self, {"Greater", "GreaterEqual", "Less", "LessEqual"})} })

comparison(self) ==
    Only({ IF ~expr.ok THEN expr ELSE comparison_loop(expr.self, expr.val)
         : expr \in {term(self)} })

RECURSIVE equality_loop(_, _)
equality_loop(self, expr) ==
    Only({ IF ~m.matched THEN POk(self, expr)
           ELSE Only({ IF ~right.ok THEN right
                       ELSE equality_loop(right.self, Expr_Binary(expr, Parser_previous(m.self), right.val))
                     : right \in {comparison(m.self)} })
         : m \in {Parser_matches(self, {"BangEqual", "EqualEqual"})} })

equality(self) ==
    Only({ IF ~expr.ok THEN expr ELSE equality_loop(expr.self, expr.val)
         : expr \in {comparison(self)} })

assignment(self) ==
    Only({ IF ~expr.ok THEN expr
           ELSE Only({ IF ~m.matched THEN expr
                       ELSE Only({ IF ~value.ok THEN value
                                   ELSE IF expr.val.e = "Variable"
                                   THEN POk(value.self, Expr_Assign(expr.val.name, value.val))
                                   ELSE POk(error(value.self, Parser_previous(m.self).line,
                                                  "Invalid assignment taarget."),
                                            expr.val)
                                 : value \in {assignment(m.self)} })
                     : m \in {Parser_matches(expr.self, {"Equal"})} })
         : expr \in {equality(self)} })

expression(self) == assignment(self)

expression_statement(self) ==
    Only({ IF ~expr.ok THEN expr
           ELSE Only({ IF ~semi.ok THEN semi ELSE POk(semi.self, Stmt_Expression(expr.val))
                     : semi \in {consume(expr.self, "Semicolon", "Expect ';' after expression.")} })
         : expr \in {expression(self)} })

print_statement(self) ==
    Only({ IF ~value.ok THEN value
           ELSE Only({ IF ~semi.ok THEN semi ELSE POk(semi.self, Stmt_Print(value.val))
                     : semi \in {consume(value.self, "Semicolon", "Expect ';' after value.")} })
         : value \in {expression(self)} })

\* The loop of block: a declaration, then the test for `}` or the end.
RECURSIVE block_loop(_, _)
block_loop(self, stmts) ==
    Only({ IF decl.self.panicked \/ check(decl.self, "RightBrace") \/ Parser_is_at_end(decl.self)
           THEN POk(decl.self, stmts \o decl.stmt)
           ELSE block_loop(decl.self, stmts \o decl.stmt)
         : decl \in {declaration(self)} })

block(self) ==
    Only({ IF body.self.panicked THEN PErr(body.self)
           ELSE Only({ IF ~closing.ok THEN closing ELSE POk(closing.self, body.val)
                     : closing \in {consume(body.self, "RightBrace", "Expect ';' after block.")} })
         : body \in {block_loop(self, <<>>)} })

statement(self) ==
    IF check(self, "Print") THEN print_statement(Parser_advance(self))
    ELSE IF check(self, "LeftBrace")
    THEN Only({ IF ~stmts.ok THEN stmts ELSE POk(stmts.self, Stmt_Block(stmts.val))
              : stmts \in {block(Parser_advance(self))} })
    ELSE expression_statement(self)

\* The initializer of var_declaration: `self.expression().ok()` after `=`.
initializer(self) ==
    Only({ IF ~m.matched THEN POk(self, <<>>)
           ELSE Only({ IF expr.ok THEN POk(expr.self, <<expr.val>>) ELSE POk(expr.self, <<>>)
                     : expr \in {expression(m.self)} })
         : m \in {Parser_matches(self, {"Equal"})} })

var_declaration(self) ==
    Only({ IF ~name.ok THEN name
           ELSE Only({ Only({ IF ~semi.ok THEN semi
                              ELSE POk(semi.self, Stmt_Var(name.val, init.val))
                            : semi \in {consume(init.self, "Semicolon",
                                                "Expect ';' after variable declaration.")} })
                     : init \in {initializer(name.self)} })
         : name \in {consume(self, "Identifier", "Expect variable name.")} })

StatementStart == {"Class", "Fun", "Var", "For", "If", "While", "Print", "Return"}

\* synchronize as it would be if it did not stop after a `;`.
RECURSIVE synchronize_loop_past_semicolon(_)
synchronize_loop_past_semicolon(self) ==
    IF Parser_is_at_end(self) THEN self
    ELSE IF Parser_peek(self).type_ \in StatementStart THEN self
    ELSE synchronize_loop_past_semicolon(Parser_advance(self))

\* The while loop of synchronize.
RECURSIVE synchronize_loop(_)
synchronize_loop(self) ==
    IF Parser_is_at_end(self) THEN self
    ELSE IF Parser_previous(self).type_ = "Semicolon" THEN self
    ELSE IF Parser_peek(self).type_ \in StatementStart THEN self
    ELSE synchronize_loop(Parser_advance(self))

synchronize(self) ==
    Only({ IF advanced.panicked THEN advanced ELSE synchronize_loop(advanced)
         : advanced \in {Parser_advance(self)} })

\* declaration returns Option<Stmt> in `stmt`.
Declared(r) ==
    IF r.ok THEN [self |-> r.self, stmt |-> <<r.val>>]
    ELSE [self |-> synchronize(r.self), stmt |-> <<>>]

declaration(self) ==
    IF check(self, "Var")
    THEN Only({ Declared(r) : r \in {var_declaration(Parser_advance(self))} })
    ELSE Only({ Declared(r) : r \in {statement(self)} })

(***************************************************************************)
(* ParseSpec: parse run on a new Parser over every sequence of at most     *)
(* MaxTokens tokens of ParseTokenTypes, followed by the end marker.        *)
(***************************************************************************)
ParseTokenTypes == {"Semicolon", "Number", "Identifier", "Plus", "Equal", "Print", "Var"}

TokenOf(type_) ==
    CASE type_ = "Number" -> Token_new("Number", "1", <<Literal_Number(Rat(1, 1))>>, 1)
      [] type_ = "Identifier" -> Token_new("Identifier", "x", <<>>, 1)
      [] type_ = "Semicolon" -> Token_new("Semicolon", ";", <<>>, 1)
      [] type_ = "Plus" -> Token_new("Plus", "+", <<>>, 1)
      [] type_ = "Equal" -> Token_new("Equal", "=", <<>>, 1)
      [] type_ = "Print" -> Token_new("Print", "print", <<>>, 1)
      [] type_ = "Var" -> Token_new("Var", "var", <<>>, 1)
      [] type_ = "Eof" -> Token_new("Eof", "", <<>>, 1)

TokensOf(types) == [i \in 1..Len(types) + 1 |-> IF i <= Len(types) THEN TokenOf(types[i]) ELSE TokenOf("Eof")]

ParseInputs == UNION {[1..n -> ParseTokenTypes] : n \in 0..MaxTokens}

ParseInit ==
    /\ \E types \in ParseInputs : parser = Parser_new(TokensOf(types))
    /\ statements = <<>>
    /\ parse_pc = "parsing"
    /\ IdleEnv /\ IdleScanner /\ IdleInterpreter /\ IdleIo

\* One turn of the loop of parse: a declaration, then the test for the end.
ParseDeclaration ==
    /\ parse_pc = "parsing"
    /\ LET decl == declaration(Threaded(parser)) IN
       /\ parser' = [tokens |-> decl.self.tokens, current |-> decl.self.current]
       /\ stdout' = stdout \o decl.self.reports
       /\ HAD_ERROR' = (HAD_ERROR \/ decl.self.reports # <<>>)
       /\ IF decl.self.panicked
          THEN /\ parse_pc' = "panicked"
               /\ stderr' = Append(stderr, "parser panicked")
               /\ UNCHANGED statements
          ELSE /\ statements' = statements \o decl.stmt
               /\ parse_pc' = IF Parser_is_at_end(decl.self) THEN "returned" ELSE "parsing"
               /\ UNCHANGED stderr
    /\ UNCHANGED <<envVars, scanVars, interpVars>>

ParseNext == ParseDeclaration

ParseSpec == ParseInit /\ [][ParseNext]_vars

\* parse as a function: the loop run to its end on a parser, giving the
\* statements it returns, the lines it reports and whether it panicked.
RECURSIVE parse_loop(_, _)
parse_loop(self, stmts) ==
    Only({ IF decl.self.panicked
           THEN [statements |-> stmts, reports |-> decl.self.reports, panicked |-> TRUE]
           ELSE IF Parser_is_at_end(decl.self)
           THEN [statements |-> stmts \o decl.stmt, reports |-> decl.self.reports,
                 panicked |-> FALSE]
           ELSE parse_loop(decl.self, stmts \o decl.stmt)
         : decl \in {declaration(self)} })

parse(tokens) == parse_loop(Threaded(Parser_new(tokens)), <<>>)

(***************************************************************************)
(* The statements of a token sequence: the tokens before the end marker,   *)
(* cut after each `;`.  The last piece has no `;` when tokens follow the   *)
(* last `;`.  A statement is malformed when parse, given that statement    *)
(* alone, reports a diagnostic; it is well formed when parse reports none. *)
(***************************************************************************)
ParseOver == parse_pc # "parsing"

Body == SubSeq(parser.tokens, 1, Len(parser.tokens) - 1)

EofToken == parser.tokens[Len(parser.tokens)]

RECURSIVE PiecesFrom(_)
PiecesFrom(i) ==
    IF i > Len(Body) THEN <<>>
    ELSE LET ends == {j \in i..Len(Body) : Body[j].type_ = "Semicolon"}
             e == IF ends = {} THEN Len(Body)
                  ELSE CHOOSE j \in ends : \A k \in ends : j <= k
         IN <<SubSeq(Body, i, e)>> \o PiecesFrom(e + 1)

Pieces == PiecesFrom(1)

Ended(piece) == piece[Len(piece)].type_ = "Semicolon"

Alone(piece) == parse(Append(piece, EofToken))

Malformed(piece) == Alone(piece).reports # <<>>

MalformedEnded == {k \in 1..Len(Pieces) : Ended(Pieces[k]) /\ Malformed(Pieces[k])}

RECURSIVE ReportsOf(_)
ReportsOf(pieces) ==
    IF pieces = <<>> THEN <<>>
    ELSE Alone(pieces[1]).reports \o ReportsOf(Tail(pieces))

RECURSIVE StatementsOf(_)
StatementsOf(pieces) ==
    IF pieces = <<>> THEN <<>>
    ELSE Alone(pieces[1]).statements \o StatementsOf(Tail(pieces))

\* C10: when the tokens hold at least two malformed statements, each ended
\* by `;`, parse returns without a panic, the lines it reports are the
\* diagnostics of each statement in turn (so every malformed statement has
\* its own, and there are at least two), and the statements it returns are
\* those of each statement in turn (so every well-formed statement after a
\* malformed one is parsed).
C10_RecoversAfterEachMalformedStatement ==
    (ParseOver /\ Cardinality(MalformedEnded) >= 2) =>
        /\ parse_pc = "returned"
        /\ stdout = ReportsOf(Pieces)
        /\ Len(stdout) >= 2
        /\ \A k \in MalformedEnded :
               \E i \in 1..Len(stdout) : stdout[i] \in
                   {Alone(Pieces[k]).reports[j] : j \in 1..Len(Alone(Pieces[k]).reports)}
        /\ statements = StatementsOf(Pieces)
        /\ \A k \in 1..Len(Pieces) :
               (Ended(Pieces[k]) /\ ~Malformed(Pieces[k])) =>
                   \E i \in 1..Len(statements) : <<statements[i]>> = Alone(Pieces[k]).statements

\* Two empty statements and then `print 1;`: two diagnostics and the print
\* statement.
C10_Witness ==
    /\ parse_pc = "returned"
    /\ [i \in 1..Len(Body) |-> Body[i].type_] =
           <<"Semicolon", "Semicolon", "Print", "Number", "Semicolon">>
    /\ Cardinality(MalformedEnded) = 2
    /\ stdout = << "[line 1] Error at ';': Expect expression",
                   "[line 1] Error at ';': Expect expression" >>
    /\ statements = <<Stmt_Print(Expr_Literal(Literal_Number(Rat(1, 1))))>>

(***************************************************************************)
(* GrammarSpec: parse run on token sequences built after the grammar: if   *)
(* and while statements, blocks of at most MaxDecls declarations, and      *)
(* expression statements of three operands and two binary operators.  Each *)
(* phrase carries its tokens and the tree the grammar gives it.            *)
(***************************************************************************)
MaxDecls == 3

\* The lexeme the scanner gives a token that is not a literal.
LexemeOf(type_) ==
    CASE type_ = "LeftParen" -> "(" [] type_ = "RightParen" -> ")"
      [] type_ = "LeftBrace" -> "{" [] type_ = "RightBrace" -> "}"
      [] type_ = "Minus" -> "-" [] type_ = "Plus" -> "+"
      [] type_ = "Semicolon" -> ";" [] type_ = "Slash" -> "/" [] type_ = "Star" -> "*"
      [] type_ = "Bang" -> "!" [] type_ = "BangEqual" -> "!="
      [] type_ = "Equal" -> "=" [] type_ = "EqualEqual" -> "=="
      [] type_ = "Greater" -> ">" [] type_ = "GreaterEqual" -> ">="
      [] type_ = "Less" -> "<" [] type_ = "LessEqual" -> "<="
      [] type_ = "Else" -> "else" [] type_ = "If" -> "if" [] type_ = "Print" -> "print"
      [] type_ = "Var" -> "var" [] type_ = "While" -> "while"

Punct(type_) == Tok(type_, LexemeOf(type_))

WithEof(tokens) == Append(tokens, TokenOf("Eof"))

Operand(name) == [tokens |-> <<Ident(name)>>, expr |-> Var(name)]

Conditions == {Operand("a"), [tokens |-> <<TokenOf("Number")>>, expr |-> Num(1)]}

SimpleStatements ==
    { [tokens |-> <<Punct("Print"), TokenOf("Number"), Punct("Semicolon")>>,
       stmt |-> Stmt_Print(Num(1))],
      [tokens |-> <<Ident("a"), Punct("Semicolon")>>,
       stmt |-> Stmt_Expression(Var("a"))] }

Declarations ==
    SimpleStatements \cup
    { [tokens |-> <<Punct("Var"), Ident("a"), Punct("Semicolon")>>,
       stmt |-> Stmt_Var(Ident("a"), <<>>)],
      [tokens |-> <<Punct("Var"), Ident("a"), Punct("Equal"), TokenOf("Number"), Punct("Semicolon")>>,
       stmt |-> Stmt_Var(Ident("a"), <<Num(1)>>)] }

IfTokens(c, t) ==
    <<Punct("If"), Punct("LeftParen")>> \o c.tokens \o <<Punct("RightParen")>> \o t.tokens

IfElseTokens(c, t, e) == IfTokens(c, t) \o <<Punct("Else")>> \o e.tokens

WhileTokens(c, b) ==
    <<Punct("While"), Punct("LeftParen")>> \o c.tokens \o <<Punct("RightParen")>> \o b.tokens

IfWhileInputs ==
    {IfTokens(c, t) : c \in Conditions, t \in SimpleStatements}
    \cup {IfElseTokens(c, t, e) : c \in Conditions, t \in SimpleStatements, e \in SimpleStatements}
    \cup {WhileTokens(c, b) : c \in Conditions, b \in SimpleStatements}

DeclLists == UNION {[1..n -> Declarations] : n \in 0..MaxDecls}

RECURSIVE TokensOfDecls(_)
TokensOfDecls(decls) ==
    IF decls = <<>> THEN <<>> ELSE decls[1].tokens \o TokensOfDecls(Tail(decls))

StmtsOfDecls(decls) == [i \in 1..Len(decls) |-> decls[i].stmt]

BlockTokens(decls) ==
    <<Punct("LeftBrace")>> \o TokensOfDecls(decls) \o <<Punct("RightBrace")>>

BlockInputs == {BlockTokens(decls) : decls \in DeclLists}

EqualityOperators == {"BangEqual", "EqualEqual"}
ComparisonOperators == {"Greater", "GreaterEqual", "Less", "LessEqual"}
TermOperators == {"Plus", "Minus"}
FactorOperators == {"Slash", "Star"}
UnaryOperators == {"Bang", "Minus"}

BinaryOperators ==
    EqualityOperators \cup ComparisonOperators \cup TermOperators \cup FactorOperators

\* No prefix operator, or one.
Prefixes == {<<>>} \cup {<<op>> : op \in UnaryOperators}

PrefixTokens(u) == [i \in 1..Len(u) |-> Punct(u[i])]

\* `[u] a op1 [v] b op2 c ;`
ExprTokens(u, op1, v, op2) ==
    PrefixTokens(u) \o <<Ident("a"), Punct(op1)>> \o PrefixTokens(v)
    \o <<Ident("b"), Punct(op2), Ident("c"), Punct("Semicolon")>>

ExprInputs ==
    {ExprTokens(u, op1, v, op2) :
        u \in Prefixes, op1 \in BinaryOperators, v \in Prefixes, op2 \in BinaryOperators}

GrammarInputs == IfWhileInputs \cup BlockInputs \cup ExprInputs

GrammarInit ==
    /\ \E tokens \in GrammarInputs : parser = Parser_new(WithEof(tokens))
    /\ statements = <<>>
    /\ parse_pc = "parsing"
    /\ IdleEnv /\ IdleScanner /\ IdleInterpreter /\ IdleIo

GrammarSpec == GrammarInit /\ [][ParseNext]_vars

\* C11: a well-formed `if (c) t`, `if (c) t else e` or `while (c) b` parses,
\* with no diagnostic, into the one If or While statement of those parts.
C11_IfAndWhileParse ==
    ParseOver =>
        /\ \A c \in Conditions, t \in SimpleStatements :
               parser.tokens = WithEof(IfTokens(c, t)) =>
                   /\ parse_pc = "returned"
                   /\ stdout = <<>>
                   /\ statements = <<Stmt_If(c.expr, t.stmt, <<>>)>>
        /\ \A c \in Conditions, t \in SimpleStatements, e \in SimpleStatements :
               parser.tokens = WithEof(IfElseTokens(c, t, e)) =>
                   /\ parse_pc = "returned"
                   /\ stdout = <<>>
                   /\ statements = <<Stmt_If(c.expr, t.stmt, <<e.stmt>>)>>
        /\ \A c \in Conditions, b \in SimpleStatements :
               parser.tokens = WithEof(WhileTokens(c, b)) =>
                   /\ parse_pc = "returned"
                   /\ stdout = <<>>
                   /\ statements = <<Stmt_While(c.expr, b.stmt)>>

\* C12: for every n >= 0, `{`, n well-formed declarations and `}` parse,
\* with no diagnostic, into the one Block of those n statements in order;
\* the empty block parses into Block of the empty list.
C12_BlockOfDeclarations ==
    ParseOver =>
        \A decls \in DeclLists :
            parser.tokens = WithEof(BlockTokens(decls)) =>
                /\ parse_pc = "returned"
                /\ stdout = <<>>
                /\ statements = <<Stmt_Block(StmtsOfDecls(decls))>>

\* The level of a binary operator in the grammar, lowest first.
Level(op) ==
    CASE op \in EqualityOperators -> 1
      [] op \in ComparisonOperators -> 2
      [] op \in TermOperators -> 3
      [] op \in FactorOperators -> 4

Prefixed(u, expr) == IF u = <<>> THEN expr ELSE Expr_Unary(Punct(u[1]), expr)

\* The tree of `[u] a op1 [v] b op2 c`: a prefix operator binds tighter than
\* any binary operator, a binary operator of a higher level binds tighter
\* than one of a lower level, and operators of one level fold to the left.
Precedence(u, op1, v, op2) ==
    IF Level(op2) > Level(op1)
    THEN Expr_Binary(Prefixed(u, Var("a")), Punct(op1),
                     Expr_Binary(Prefixed(v, Var("b")), Punct(op2), Var("c")))
    ELSE Expr_Binary(Expr_Binary(Prefixed(u, Var("a")), Punct(op1), Prefixed(v, Var("b"))),
                     Punct(op2), Var("c"))

\* C14: the expression statement `[u] a op1 [v] b op2 c ;` parses, with no
\* diagnostic, into the tree of the precedence order equality < comparison
\* < term < factor < unary < primary, each binary level folded to the left.
C14_PrecedenceAndLeftFolding ==
    ParseOver =>
        \A u \in Prefixes, op1 \in BinaryOperators, v \in Prefixes, op2 \in BinaryOperators :
            parser.tokens = WithEof(ExprTokens(u, op1, v, op2)) =>
                /\ parse_pc = "returned"
                /\ stdout = <<>>
                /\ statements = <<Stmt_Expression(Precedence(u, op1, v, op2))>>

\* `a + b * c ;` parsed into Binary(a, +, Binary(b, *, c)).
C14_Witness ==
    /\ parse_pc = "returned"
    /\ parser.tokens = WithEof(ExprTokens(<<>>, "Plus", <<>>, "Star"))
    /\ statements =
           <<Stmt_Expression(Expr_Binary(Var("a"), Punct("Plus"),
                                         Expr_Binary(Var("b"), Punct("Star"), Var("c"))))>>

\* The call of declaration that can fail: var_declaration after `var`,
\* statement otherwise.  When it fails, its parser stands at the token the
\* error was reported at, and synchronize starts there.
Attempt(self) ==
    IF check(self, "Var") THEN var_declaration(Parser_advance(self)) ELSE statement(self)

\* C15: when a declaration fails, none of the tokens synchronize discards,
\* from the token of the error to the token before the one parse resumes
\* at, begins a new statement.
C15_SynchronizeKeepsStatementStarts ==
    [][(parse_pc = "parsing" /\ ~Attempt(Threaded(parser)).ok) =>
           \A i \in (Attempt(Threaded(parser)).self.current + 1)..parser'.current :
               parser.tokens[i].type_ \notin StatementStart]_vars

\* One statement: the tokens end with their only `;` and no token after the
\* first begins a new statement.
SingleStatement ==
    /\ Len(Pieces) = 1
    /\ Ended(Pieces[1])
    /\ \A i \in 2..Len(Body) : Body[i].type_ \notin StatementStart

\* C16: parse reports at most one diagnostic for one statement.
C16_OneDiagnosticPerStatement ==
    (ParseOver /\ SingleStatement) => Len(stdout) <= 1

\* C17: on the tokens of an empty program, the end marker alone, parse
\* returns the empty list, reports nothing and does not panic.
C17_EmptyProgramParses ==
    (ParseOver /\ Body = <<>>) =>
        /\ parse_pc = "returned"
        /\ statements = <<>>
        /\ stdout = <<>>

(***************************************************************************)
(* RunSpec: run of main.rs on a source text: scan_tokens, Parser::new and  *)
(* parse, the test of the error flag, interpret.  A panic of the scanner,  *)
(* of the parser or of the interpreter ends the run where it happens.  The *)
(* sources are at most MaxRunChunks chunks of RunChunks, chosen so that    *)
(* the scanner gives the tokens of a statement: it takes a keyword or a    *)
(* number from a lexeme without its first and last character.  The parser  *)
(* builds no If and no While statement, so those two visits have no step   *)
(* in a run.                                                               *)
(***************************************************************************)
MaxRunChunks == 3

RunChunks ==
    { <<"x", "p", "r", "i", "n", "t", "x", "\"", "a", "\"", ";">>,   \* print "a";
      <<"\"", "a", "\"", ";">>,                                      \* "a";
      <<"\"", "a", "\"", "+", "1", "1", "1", ";">>,                  \* "a" + 1;
      <<"x", "v", "a", "r", "x", " ", "a", "a", "a", ";">>,          \* var aaa;
      <<"{">>, <<"}">>,
      <<"+", ";">>,                                                  \* a parse error
      <<"@">> }                                                      \* a scan error

RECURSIVE Concat(_)
Concat(chunks) == IF chunks = <<>> THEN <<>> ELSE chunks[1] \o Concat(Tail(chunks))

RunSources == {Concat(chunks) : chunks \in UNION {[1..n -> RunChunks] : n \in 0..MaxRunChunks}}

RunInit ==
    /\ \E source \in RunSources : scanner = Scanner_new(source)
    /\ scan_pc = "scanning"
    /\ IdleEnv /\ IdleParser /\ IdleInterpreter /\ IdleIo

\* let mut parser = Parser::new(tokens);
RunNewParser ==
    /\ scan_pc = "returned" /\ parse_pc = "idle"
    /\ parser' = Parser_new(scanner.tokens)
    /\ parse_pc' = "parsing"
    /\ UNCHANGED <<statements, envVars, scanVars, interpVars, ioVars>>

\* had_error as it would be if it never saw the flag set.
had_error_unseen == FALSE

had_error == HAD_ERROR

\* if had_error() { return; } interpreter.interpret(&statements);
RunInterpret ==
    /\ parse_pc = "returned" /\ exec_pc = "idle"
    /\ IF had_error
       THEN /\ exec_pc' = "skipped"
            /\ UNCHANGED frames
       ELSE /\ exec_pc' = "running"
            /\ frames' = <<Frame_interpret(statements, 1)>>
    /\ UNCHANGED <<program, interpreter, envVars, scanVars, parseVars, ioVars>>

RunNext ==
    \/ ScanToken \/ ScanTokensReturn
    \/ RunNewParser
    \/ ParseDeclaration
    \/ RunInterpret
    \/ InterpretNext \/ InterpretReturn
    \/ VisitBlockStmt \/ ExecuteBlockNext \/ ExecuteBlockReturn
    \/ VisitExpressionStmt \/ VisitPrintStmt \/ VisitVarStmt

RunSpec == RunInit /\ [][RunNext]_vars

\* A line that report of main.rs prints.
IsDiagnostic(line) == Len(line) >= 6 /\ SubSeq(line, 1, 6) = "[line "

\* C13: once scanning or parsing has reported an error, the program is not
\* executed: interpret is not entered, the interpreter's environment is as
\* it was given, and the only lines printed are diagnostics.
C13_NoExecutionAfterError ==
    HAD_ERROR =>
        /\ exec_pc \in {"idle", "skipped"}
        /\ frames = <<>>
        /\ interpreter = Interpreter_new
        /\ \A i \in 1..Len(stdout) : IsDiagnostic(stdout[i])

\* A run that has returned without interpreting the print statement it
\* parsed, because an error was reported.
C13_Witness ==
    /\ exec_pc = "skipped"
    /\ HAD_ERROR
    /\ \E i \in 1..Len(statements) : statements[i].s = "Print"
    /\ stdout # <<>>
    /\ \A i \in 1..Len(stdout) : IsDiagnostic(stdout[i])

====
